---- MODULE Spec2Model ----
(***************************************************************************)
(* Model of the speech-emotion-analysis service.                           *)
(*                                                                         *)
(* Three near-identical FastAPI applications expose POST /analyze:         *)
(*   "main"  = src/main.py       "index" = src/api/index.py                *)
(*   "app"   = src/app.py                                                  *)
(* Each decodes the upload through a temporary file, maps three audio      *)
(* statistics to four emotion percentages and a conflict risk, and returns *)
(* a JSON body.                                                            *)
(*                                                                         *)
(* Numbers.  The statistics are reals in the code; here they are points of *)
(* a rational grid: rms_var = rv / StatDen, zcr_mean = z / StatDen,        *)
(* spectral_centroid_mean / 5000 = c / StatDen.  Raw weights are kept as   *)
(* exact integers scaled by RawScale(v); percentages and the risk are      *)
(* integers counting tenths (round(x, 1) keeps one decimal).               *)
(***************************************************************************)
EXTENDS Integers, FiniteSets, Sequences, TLC

VARIABLES
    scorer,          \* one run of the scoring arithmetic, step by step
    pc,              \* position of each request's handler coroutine
    req,             \* what each handler has read of its upload so far
    tmp,             \* name of the temporary file each request created (0: none)
    files,           \* the temporary directory: file name -> content written
    owner,           \* file name -> the request whose NamedTemporaryFile made it
    resp,            \* HTTP response returned for each request
    steps,           \* what each request has done: "tempfile" (created), "write"
                     \* (bytes or converted audio put in the file), "decode"
                     \* (librosa.load / AudioSegment.from_file called), "score",
                     \* "chart", "unlink", and the exceptions raised
    now,             \* wall clock read by datetime.now()
    analysis_cache   \* module-level dict of src/app.py

vars == <<scorer, pc, req, tmp, files, owner, resp, steps, now, analysis_cache>>
handlerVars == <<pc, req, tmp, files, owner, resp, steps, now, analysis_cache>>

----------------------------------------------------------------------------
(* Bounds of the model *)

StatDen == 10          \* grid resolution of the statistics
MaxRmsVar == 36        \* rms_var ranges over 0 .. MaxRmsVar / StatDen
MaxCentroid == 12      \* centroid / 5000 ranges over 0 .. MaxCentroid / StatDen
NumRequests == 2       \* requests in flight
MaxClock == 1          \* ticks of the wall clock
MaxOver == 1           \* decoded lengths reach MaxOver samples past the ceiling

Variants == {"main", "index", "app"}

Max(a, b) == IF a >= b THEN a ELSE b
Min(a, b) == IF a <= b THEN a ELSE b

----------------------------------------------------------------------------
(* The scorer: analyze_audio_simple / generate_emotion_analysis *)

Stats == [rv : 0..MaxRmsVar, z : 0..StatDen, c : 0..MaxCentroid]

\* main.py and api/index.py never compute a spectral centroid.
StatsOf(v) == IF v = "app" THEN Stats ELSE {s \in Stats : s.c = 0}

\* Raw weights are stored multiplied by RawScale(v) so that they are integers.
RawScale(v) == IF v = "app" THEN 10 * StatDen ELSE StatDen

\* The upper clamp of the raw weights: min(100, ...) resp. min(1, ...).
RawCeiling(v) == IF v = "app" THEN 1 ELSE 100

\* Raw weights whose calm entry lacks the max(0, ...) floor.
RawScoresNoFloor(v, s) ==
    IF v = "app"
    THEN [calm    |-> 1 * RawScale(v) - s.rv * 20,
          tense   |-> Min(1 * RawScale(v), s.rv * 15 + s.z * 3),
          angry   |-> Min(1 * RawScale(v), s.c * 10 + s.rv * 10),
          excited |-> Min(1 * RawScale(v), (s.rv + s.z) * 8)]
    ELSE [calm    |-> 100 * RawScale(v) - s.rv * 50,
          tense   |-> Min(100 * RawScale(v), s.rv * 40 + s.z * 20),
          angry   |-> Min(100 * RawScale(v), s.rv * 60),
          excited |-> Min(100 * RawScale(v), (s.rv + s.z) * 30)]

\* Raw weights whose angry entry uses zcr_mean where the code uses rms_var.
RawScoresAngryFromZcr(v, s) ==
    IF v = "app"
    THEN [calm    |-> Max(0, 1 * RawScale(v) - s.rv * 20),
          tense   |-> Min(1 * RawScale(v), s.rv * 15 + s.z * 3),
          angry   |-> Min(1 * RawScale(v), s.c * 10 + s.z * 10),
          excited |-> Min(1 * RawScale(v), (s.rv + s.z) * 8)]
    ELSE [calm    |-> Max(0, 100 * RawScale(v) - s.rv * 50),
          tense   |-> Min(100 * RawScale(v), s.rv * 40 + s.z * 20),
          angry   |-> Min(100 * RawScale(v), s.z * 60),
          excited |-> Min(100 * RawScale(v), (s.rv + s.z) * 30)]

RawScores(v, s) ==
    IF v = "app"
    THEN [calm    |-> Max(0, 1 * RawScale(v) - s.rv * 20),
          tense   |-> Min(1 * RawScale(v), s.rv * 15 + s.z * 3),
          angry   |-> Min(1 * RawScale(v), s.c * 10 + s.rv * 10),
          excited |-> Min(1 * RawScale(v), (s.rv + s.z) * 8)]
    ELSE [calm    |-> Max(0, 100 * RawScale(v) - s.rv * 50),
          tense   |-> Min(100 * RawScale(v), s.rv * 40 + s.z * 20),
          angry   |-> Min(100 * RawScale(v), s.rv * 60),
          excited |-> Min(100 * RawScale(v), (s.rv + s.z) * 30)]

Total(e) == e.calm + e.tense + e.angry + e.excited

\* Defined only for d > 0: floor of n / d for any integer n.
FloorDiv(n, d) == IF n >= 0 THEN n \div d ELSE -((-n + d - 1) \div d)

\* A round() that truncates instead of rounding to nearest.
RoundTruncating(n, d) == FloorDiv(n, d)

\* round(): nearest integer to n / d, ties to the even neighbour.
Round(n, d) ==
    LET q == FloorDiv(n, d)
        r == n - q * d
    IN  IF 2 * r > d THEN q + 1
        ELSE IF 2 * r < d THEN q
        ELSE IF q % 2 = 0 THEN q ELSE q + 1

DivError == [calm |-> -1, tense |-> -1, angry |-> -1, excited |-> -1]

\* A normalization that forgets the factor 100.
NormalizeFraction(e) ==
    IF Total(e) = 0 THEN DivError
    ELSE [k \in DOMAIN e |-> Round(e[k] * 10, Total(e))]

\* round(score / total * 100, 1), in tenths.  A zero total is a division
\* by zero; DivError stands for the fault.
Normalize(e) ==
    IF Total(e) = 0 THEN DivError
    ELSE [k \in DOMAIN e |-> Round(e[k] * 1000, Total(e))]

\* A weighted sum with a sign slip on the angry term.
RiskSumSignSlip(v, e) ==
    IF v = "app"
    THEN Min(100 * 100, e.tense * 6 - e.angry * 8 + e.excited * 4)
    ELSE Min(100 * 100, e.tense * 4 - e.angry * 6)

\* A weighted sum with the tense and angry weights exchanged.
RiskSumSwapped(v, e) ==
    IF v = "app"
    THEN Min(100 * 100, e.tense * 8 + e.angry * 6 + e.excited * 4)
    ELSE Min(100 * 100, e.tense * 6 + e.angry * 4)

\* Ten times the capped weighted sum of the percentages, in tenths.
RiskSum(v, e) ==
    IF v = "app"
    THEN Min(100 * 100, e.tense * 6 + e.angry * 8 + e.excited * 4)
    ELSE Min(100 * 100, e.tense * 4 + e.angry * 6)

\* A risk that mixes the wall clock into the arithmetic.
ConflictRiskTimed(v, e) == Round(RiskSum(v, e), 10) + now

\* round(conflict_risk, 1), in tenths.
ConflictRisk(v, e) == Round(RiskSum(v, e), 10)

SampleRate == 22050    \* sr=22050

\* duration=10 in librosa.load; 30 * sr in app.py.
MaxSeconds(v) == IF v = "app" THEN 30 ELSE 10

MaxLength(v) == MaxSeconds(v) * SampleRate

\* A load that keeps every decoded sample.
TruncateNever(v, n) == n

\* len(y) after librosa.load(..., duration=10), resp. after y[:max_length].
Truncate(v, n) == IF n > MaxLength(v) THEN MaxLength(v) ELSE n

\* round(len(y) / sr, 2), in hundredths of a second.
Duration(n) == Round(n * 100, SampleRate)

\* Decoded lengths, in samples: one second, around the ceiling, twice the
\* ceiling.
LengthsOf(v) ==
    {SampleRate, 2 * MaxLength(v)} \cup (MaxLength(v) - 1 .. MaxLength(v) + MaxOver)

ScorerOff == [pc |-> "off", variant |-> "main",
              stats |-> [rv |-> 0, z |-> 0, c |-> 0],
              decoded |-> 0, samples |-> 0, duration |-> -1,
              emotion_scores |-> DivError, conflict_risk |-> -1]

\* The decoder produced n samples whose statistics will be s.
ScorerStart(v, s, n) ==
    [ScorerOff EXCEPT !.pc = "decoded", !.variant = v, !.stats = s, !.decoded = n]

LimitLength ==
    /\ scorer.pc = "decoded"
    /\ scorer' = [scorer EXCEPT !.pc = "features",
                    !.samples = Truncate(scorer.variant, scorer.decoded),
                    !.duration = Duration(Truncate(scorer.variant, scorer.decoded))]
    /\ UNCHANGED handlerVars

ComputeRaw ==
    /\ scorer.pc = "features"
    /\ scorer' = [scorer EXCEPT !.pc = "raw",
                    !.emotion_scores = RawScores(scorer.variant, scorer.stats)]
    /\ UNCHANGED handlerVars

NormalizeScores ==
    /\ scorer.pc = "raw"
    /\ scorer' = [scorer EXCEPT
                    !.pc = IF Total(scorer.emotion_scores) = 0 THEN "fault" ELSE "normalized",
                    !.emotion_scores = Normalize(scorer.emotion_scores)]
    /\ UNCHANGED handlerVars

ComputeRisk ==
    /\ scorer.pc = "normalized"
    /\ scorer' = [scorer EXCEPT !.pc = "done",
                    !.conflict_risk = ConflictRisk(scorer.variant, scorer.emotion_scores)]
    /\ UNCHANGED handlerVars

----------------------------------------------------------------------------
(* Uploads *)

Reqs == 1..NumRequests

SizeLimit == 10 * 1024 * 1024      \* bytes

\* content_type of the UploadFile; "none" is a part without a Content-Type.
ContentTypes == {"audio/wav", "text/plain", "none"}

IsAudio(ct) == ct = "audio/wav"    \* content_type.startswith('audio/')

Silent == [rv |-> 0, z |-> 0, c |-> 0]
Lively == [rv |-> 12, z |-> 3, c |-> 4]

\* Statistics of the clips the handlers are exercised with.
ClipStats == {Silent, Lively}

\* A payload: its length in bytes, whether librosa / pydub can decode it,
\* and the statistics of the decoded samples.
EmptyPayload == [size |-> 0, decodable |-> FALSE, stats |-> Silent]

Payloads ==
    {EmptyPayload}
    \cup [size : {SizeLimit, SizeLimit + 1}, decodable : {FALSE}, stats : {Silent}]
    \cup [size : {SizeLimit, SizeLimit + 1}, decodable : {TRUE}, stats : ClipStats]

Unread == [size |-> -1, decodable |-> FALSE, stats |-> Silent]

NoReq == [variant |-> "main", content_type |-> "unread", size |-> -1,
          payload |-> Unread]

----------------------------------------------------------------------------
(* Responses *)

NoScores == [calm |-> -1, tense |-> -1, angry |-> -1, excited |-> -1]

\* status 0: no response yet.  status -1: an exception left the handler.
\* keys: the top-level keys of the JSON body; nested: the keys of its
\* emotion_result object, when it has one.
NoResp == [status |-> 0, keys |-> {}, nested |-> {}, success |-> FALSE, error |-> "",
           emotions |-> NoScores, risk |-> -1, timestamp |-> -1,
           charts |-> {}]

Failure(status, msg) ==
    [NoResp EXCEPT !.status = status, !.keys = {"success", "error"},
                   !.success = FALSE, !.error = msg]

\* An except clause that lets the exception leave the handler.
OnExceptionReraise(v, e) == [NoResp EXCEPT !.status = -1]

\* The handler's except clause.  main.py and api/index.py return a dict
\* (FastAPI answers 200); app.py returns a JSONResponse with status 500.
OnException(v, e) ==
    Failure(IF v = "app" THEN 500 ELSE 200, e)

\* A result dict without the timestamp entry.
SimpleResultNoTimestamp(v, s, t) ==
    LET e == Normalize(RawScores(v, s))
    IN  [NoResp EXCEPT !.status = 200,
            !.keys = {"success", "emotions", "risk", "duration"},
            !.success = TRUE, !.emotions = e, !.risk = ConflictRisk(v, e),
            !.timestamp = t]

\* The dict built by analyze_audio_simple on success.
SimpleResult(v, s, t) ==
    LET e == Normalize(RawScores(v, s))
    IN  [NoResp EXCEPT !.status = 200,
            !.keys = {"success", "emotions", "risk", "duration", "timestamp"},
            !.success = TRUE, !.emotions = e, !.risk = ConflictRisk(v, e),
            !.timestamp = t]

\* A handler that forgets to attach the chart.
WithChartDropped(result) == result

\* result['chart'] = chart_img
WithChart(result) ==
    [result EXCEPT !.keys = @ \cup {"chart"}, !.charts = {"chart"}]

AllCharts == {"waveform", "emotion_pie", "spectrogram"}

\* Charts present when generate_charts stops at its n-th figure.
ChartsUpTo(n) ==
    IF n = 0 THEN {} ELSE IF n = 1 THEN {"waveform"}
    ELSE IF n = 2 THEN {"waveform", "emotion_pie"} ELSE AllCharts

\* The dict built by app.analyze_audio on success.
AppResult(s, t, charts) ==
    LET e == Normalize(RawScores("app", s))
    IN  [NoResp EXCEPT !.status = 200,
            !.keys = {"success", "emotion_result", "chart_data", "duration"},
            !.nested = {"emotion_scores", "conflict_risk", "duration", "timestamp"},
            !.success = TRUE, !.emotions = e, !.risk = ConflictRisk("app", e),
            !.timestamp = t, !.charts = charts]

----------------------------------------------------------------------------
(* Temporary files *)

\* A fixed file name shared by all requests.
TmpNameFixed(r) == 1

\* The name NamedTemporaryFile picks for request r.  mkstemp opens the file
\* with O_EXCL under a random name, so the name is new for every call; the
\* request's index stands for it.
TmpName(r) == r

\* tempfile.NamedTemporaryFile(delete=False): a new, empty file.
CreateTmp(f, name) == [n \in DOMAIN f \cup {name} |-> IF n = name THEN EmptyPayload ELSE f[n]]

\* tmp_file.write(content); tmp_file.flush()
WriteTmp(f, name, content) == [f EXCEPT ![name] = content]

\* os.unlink(name)
Unlink(f, name) == [n \in DOMAIN f \ {name} |-> f[n]]

\* Who made each file of f, after request r made the file called name.
MadeBy(o, f, name, r) == [n \in DOMAIN f |-> IF n = name THEN r ELSE o[n]]

\* Who made each file of f, a directory that lost some files of o.
Remaining(o, f) == [n \in DOMAIN f |-> o[n]]

\* librosa.load(name) succeeds exactly on decodable content.
Loadable(f, name) == name \in DOMAIN f /\ f[name].decodable

----------------------------------------------------------------------------
(* Request handlers.  A handler runs without interruption between its      *)
(* await points; the only await is "await file.read()".                    *)

Respond(r, response) ==
    /\ pc' = [pc EXCEPT ![r] = "done"]
    /\ resp' = [resp EXCEPT ![r] = response]

Did(r, names) == steps' = [steps EXCEPT ![r] = @ \cup names]

\* with tempfile.NamedTemporaryFile(delete=False, suffix='.wav') as tmp_file:
\* then the coroutine suspends in "await file.read()".
OpenTmpAndAwait(r) ==
    /\ files' = CreateTmp(files, TmpName(r))
    /\ owner' = MadeBy(owner, files', TmpName(r), r)
    /\ tmp' = [tmp EXCEPT ![r] = TmpName(r)]
    /\ pc' = [pc EXCEPT ![r] = "reading"]
    /\ Did(r, {"tempfile"})
    /\ UNCHANGED resp

\* analyze_audio_simple(file_path) of main.py and api/index.py: every
\* exception inside it becomes {'success': False, 'error': str(e)}.
AnalyzeAudioSimple(v, f, name, t) ==
    IF ~Loadable(f, name) THEN Failure(200, "decode_error")
    ELSE IF Total(RawScores(v, f[name].stats)) = 0 THEN Failure(200, "division_by_zero")
    ELSE SimpleResult(v, f[name].stats, t)

\* The body of the with-block after "await file.read()", shared by main.py
\* and api/index.py: write, analyse, chart, unlink, return.
SimpleResume(r, v, content) ==
    LET written == WriteTmp(files, tmp[r], content)
        result  == AnalyzeAudioSimple(v, written, tmp[r], now)
    IN  /\ req' = [req EXCEPT ![r].payload = content, ![r].size = content.size]
        /\ IF result.success
           THEN \E chartOk \in BOOLEAN :
                  IF chartOk
                  THEN /\ files' = Unlink(written, tmp[r])
                       /\ Respond(r, WithChart(result))
                       /\ Did(r, {"write", "decode", "score", "chart", "unlink"})
                  ELSE \* create_*_chart raised: control leaves the with-block
                       /\ files' = written
                       /\ Respond(r, OnException(v, "chart_error"))
                       /\ Did(r, {"write", "decode", "score", "chart", "ChartError"})
           ELSE /\ files' = Unlink(written, tmp[r])
                /\ Respond(r, result)
                /\ Did(r, IF Loadable(written, tmp[r])
                           THEN {"write", "decode", "score", "ZeroDivisionError", "unlink"}
                           ELSE {"write", "decode", "DecodeError", "unlink"})
        /\ owner' = Remaining(owner, files')
        /\ UNCHANGED <<tmp, now, analysis_cache, scorer>>

\* src/main.py analyze_audio, up to "await file.read()"
main_analyze_audio(r) ==
    /\ pc[r] = "idle"
    /\ \E ct \in ContentTypes :
         /\ req' = [req EXCEPT ![r] = [NoReq EXCEPT !.variant = "main", !.content_type = ct]]
         /\ IF ct = "none"
            THEN \* None.startswith: AttributeError
                 /\ Respond(r, OnException("main", "attribute_error"))
                 /\ Did(r, {"AttributeError"})
                 /\ UNCHANGED <<tmp, files, owner>>
            ELSE IF ~IsAudio(ct)
            THEN /\ Respond(r, Failure(200, "not_audio"))
                 /\ UNCHANGED <<tmp, files, owner, steps>>
            ELSE \E created \in BOOLEAN :
                   IF created
                   THEN OpenTmpAndAwait(r)
                   ELSE /\ Respond(r, OnException("main", "tempfile_error"))
                        /\ Did(r, {"OSError"})
                        /\ UNCHANGED <<tmp, files, owner>>
    /\ UNCHANGED <<now, analysis_cache, scorer>>

\* src/main.py analyze_audio, after "await file.read()"
main_analyze_audio_resume(r) ==
    /\ pc[r] = "reading"
    /\ req[r].variant = "main"
    /\ \E content \in Payloads : SimpleResume(r, "main", content)

\* A handler that tests the size only inside the with-block, after the
\* temporary file was made.
index_size_check_in_with_block(r) ==
    /\ pc[r] = "idle"
    /\ \E ct \in ContentTypes :
         IF ct = "none"
         THEN /\ req' = [req EXCEPT ![r] = [NoReq EXCEPT !.variant = "index", !.content_type = ct]]
              /\ Respond(r, OnException("index", "attribute_error"))
              /\ Did(r, {"AttributeError"})
              /\ UNCHANGED <<tmp, files, owner>>
         ELSE IF ~IsAudio(ct)
         THEN /\ req' = [req EXCEPT ![r] = [NoReq EXCEPT !.variant = "index", !.content_type = ct]]
              /\ Respond(r, Failure(200, "not_audio"))
              /\ UNCHANGED <<tmp, files, owner, steps>>
         ELSE \E p \in Payloads :
                /\ req' = [req EXCEPT ![r] = [NoReq EXCEPT !.variant = "index",
                                                 !.content_type = ct, !.size = p.size]]
                /\ \E created \in BOOLEAN :
                     IF ~created
                     THEN /\ Respond(r, OnException("index", "tempfile_error"))
                          /\ Did(r, {"OSError"})
                          /\ UNCHANGED <<tmp, files, owner>>
                     ELSE IF p.size > SizeLimit
                     THEN /\ files' = CreateTmp(files, TmpName(r))
                          /\ owner' = MadeBy(owner, files', TmpName(r), r)
                          /\ tmp' = [tmp EXCEPT ![r] = TmpName(r)]
                          /\ Did(r, {"tempfile"})
                          /\ Respond(r, Failure(200, "too_large"))
                     ELSE OpenTmpAndAwait(r)
    /\ UNCHANGED <<now, analysis_cache, scorer>>

\* src/api/index.py analyze_audio, up to "await file.read()"
index_analyze_audio(r) ==
    /\ pc[r] = "idle"
    /\ \E ct \in ContentTypes :
         IF ct = "none"
         THEN /\ req' = [req EXCEPT ![r] = [NoReq EXCEPT !.variant = "index", !.content_type = ct]]
              /\ Respond(r, OnException("index", "attribute_error"))
                 /\ Did(r, {"AttributeError"})
                 /\ UNCHANGED <<tmp, files, owner>>
         ELSE IF ~IsAudio(ct)
         THEN /\ req' = [req EXCEPT ![r] = [NoReq EXCEPT !.variant = "index", !.content_type = ct]]
              /\ Respond(r, Failure(200, "not_audio"))
              /\ UNCHANGED <<tmp, files, owner, steps>>
         ELSE \E p \in Payloads :
                /\ req' = [req EXCEPT ![r] = [NoReq EXCEPT !.variant = "index",
                                                 !.content_type = ct, !.size = p.size]]
                /\ IF p.size > SizeLimit
                   THEN /\ Respond(r, Failure(200, "too_large"))
                        /\ UNCHANGED <<tmp, files, owner, steps>>
                   ELSE \E created \in BOOLEAN :
                          IF created
                          THEN OpenTmpAndAwait(r)
                          ELSE /\ Respond(r, OnException("index", "tempfile_error"))
                               /\ Did(r, {"OSError"})
                               /\ UNCHANGED <<tmp, files, owner>>
    /\ UNCHANGED <<now, analysis_cache, scorer>>

\* src/api/index.py analyze_audio, after "await file.read()"
index_analyze_audio_resume(r) ==
    /\ pc[r] = "reading"
    /\ req[r].variant = "index"
    /\ \E content \in {p \in Payloads : p.size = req[r].size} :
         SimpleResume(r, "index", content)

\* src/app.py analyze_audio_file, up to "await file.read()"
analyze_audio_file(r) ==
    /\ pc[r] = "idle"
    /\ \E ct \in ContentTypes :
         /\ req' = [req EXCEPT ![r] = [NoReq EXCEPT !.variant = "app", !.content_type = ct]]
         /\ IF ct = "none"
            THEN /\ Respond(r, OnException("app", "attribute_error"))
                 /\ Did(r, {"AttributeError"})
            ELSE IF ~IsAudio(ct)
            THEN /\ Respond(r, Failure(400, "not_audio"))
                 /\ UNCHANGED steps
            ELSE /\ pc' = [pc EXCEPT ![r] = "reading"]
                 /\ UNCHANGED <<resp, steps>>
    /\ UNCHANGED <<tmp, files, owner, now, analysis_cache, scorer>>

\* src/app.py analyze_audio(audio_data, filename): the temporary file is
\* unlinked only on the line after a successful librosa.load; any exception
\* becomes {"success": False, "error": str(e)}, which the route answers
\* with status 500.
analyze_audio(r, content, wav) ==
    \E created \in BOOLEAN :
      IF ~created
      THEN /\ Respond(r, Failure(500, "tempfile_error"))
           /\ Did(r, {"OSError"})
           /\ UNCHANGED <<tmp, files, owner>>
      ELSE LET name    == TmpName(r)
               opened  == CreateTmp(files, name)
               \* non-WAV: AudioSegment.from_file(bytes) then export to the
               \* file; WAV: the bytes are written to the file.
               written == IF ~wav /\ ~content.decodable
                          THEN opened ELSE WriteTmp(opened, name, content)
           IN  /\ tmp' = [tmp EXCEPT ![r] = name]
               /\ IF ~Loadable(written, name)
                  THEN /\ files' = written
                       /\ Respond(r, Failure(500, "decode_error"))
                       /\ Did(r, IF wav THEN {"tempfile", "write", "decode", "DecodeError"}
                                        ELSE {"tempfile", "decode", "DecodeError"})
                  ELSE IF Total(RawScores("app", written[name].stats)) = 0
                  THEN /\ files' = Unlink(written, name)
                       /\ Respond(r, Failure(500, "division_by_zero"))
                       /\ Did(r, {"tempfile", "write", "decode", "unlink", "score",
                                   "ZeroDivisionError"})
                  ELSE \E n \in 0..3 :
                         \* generate_charts swallows a failure at figure n + 1
                         /\ files' = Unlink(written, name)
                         /\ Respond(r, AppResult(written[name].stats, now, ChartsUpTo(n)))
                         /\ Did(r, {"tempfile", "write", "decode", "unlink", "score", "chart"}
                                    \cup (IF n < 3 THEN {"ChartError"} ELSE {}))
               /\ owner' = Remaining(MadeBy(owner, opened, name, r), files')

\* A handler that stores each result under the request in the module dict.
CacheStore(cache, r, result) ==
    [k \in DOMAIN cache \cup {r} |-> IF k = r THEN result ELSE cache[k]]

\* analysis_cache after the route handled request r: no statement of
\* app.py assigns to the dict or to one of its keys.
CacheAfter(cache, r, result) == cache

\* src/app.py analyze_audio_file, after "await file.read()"
analyze_audio_file_resume(r) ==
    /\ pc[r] = "reading"
    /\ req[r].variant = "app"
    /\ \E content \in Payloads :
         IF content.size = 0
         THEN /\ req' = [req EXCEPT ![r].payload = content, ![r].size = content.size]
              /\ Respond(r, Failure(400, "empty_file"))
              /\ UNCHANGED <<tmp, files, owner, steps>>
         ELSE \E wav \in BOOLEAN :
                /\ req' = [req EXCEPT ![r].payload = content, ![r].size = content.size]
                /\ analyze_audio(r, content, wav)
    /\ analysis_cache' = CacheAfter(analysis_cache, r, resp'[r])
    /\ UNCHANGED <<now, scorer>>

\* datetime.now() advances between handler steps.
Tick ==
    /\ now < MaxClock
    /\ now' = now + 1
    /\ UNCHANGED <<scorer, pc, req, tmp, files, owner, resp, steps, analysis_cache>>

----------------------------------------------------------------------------
(* Specifications *)

HandlerInit ==
    /\ pc = [r \in Reqs |-> "idle"]
    /\ req = [r \in Reqs |-> NoReq]
    /\ tmp = [r \in Reqs |-> 0]
    /\ files = <<>>
    /\ owner = <<>>
    /\ resp = [r \in Reqs |-> NoResp]
    /\ steps = [r \in Reqs |-> {}]
    /\ now = 0
    /\ analysis_cache = <<>>

\* The service: requests arrive and are handled concurrently.
Init == HandlerInit /\ scorer = ScorerOff

Next ==
    \/ \E r \in Reqs : main_analyze_audio(r)
    \/ \E r \in Reqs : main_analyze_audio_resume(r)
    \/ \E r \in Reqs : index_analyze_audio(r)
    \/ \E r \in Reqs : index_analyze_audio_resume(r)
    \/ \E r \in Reqs : analyze_audio_file(r)
    \/ \E r \in Reqs : analyze_audio_file_resume(r)
    \/ Tick

Spec == Init /\ [][Next]_vars

\* The scorer alone, over the whole grid of statistics.
ScorerInit ==
    /\ HandlerInit
    /\ \E v \in Variants : \E s \in StatsOf(v) : \E n \in LengthsOf(v) :
          scorer = ScorerStart(v, s, n)

ScorerNext == LimitLength \/ ComputeRaw \/ NormalizeScores \/ ComputeRisk

ScorerSpec == ScorerInit /\ [][ScorerNext]_vars

----------------------------------------------------------------------------
(* Properties of the scorer (checked under ScorerSpec) *)

ScoreKeys == {"calm", "tense", "angry", "excited"}

C2_RiskInRange ==
    scorer.pc = "done" => scorer.conflict_risk \in 0..1000

\* A risk above 50 computed by the variant with the excited term.
C2_Witness ==
    /\ scorer.pc = "done"
    /\ scorer.variant = "app"
    /\ scorer.conflict_risk > 500

Degenerate == scorer.stats.rv = 0 /\ scorer.stats.z = 0

CalmOnly == [calm |-> 1000, tense |-> 0, angry |-> 0, excited |-> 0]

\* C3 (as stated): with rms_var = 0 and zcr_mean = 0 the scorer returns
\* calm = 100, tense = angry = excited = 0 and risk 0, without a division
\* by zero.
C3_AsStated ==
    Degenerate =>
        /\ scorer.pc # "fault"
        /\ scorer.pc \in {"normalized", "done"} => scorer.emotion_scores = CalmOnly
        /\ scorer.pc = "done" => scorer.conflict_risk = 0

\* C3 (amended): with rms_var = 0 and zcr_mean = 0 the scorer never divides
\* by zero and returns tense = excited = 0; it returns calm = 100, angry = 0
\* and risk 0 whenever the spectral centroid mean is 0 or the variant does
\* not use the centroid.
C3_DegenerateInput ==
    Degenerate =>
        /\ scorer.pc # "fault"
        /\ scorer.pc \in {"normalized", "done"} =>
              /\ scorer.emotion_scores.tense = 0
              /\ scorer.emotion_scores.excited = 0
              /\ scorer.stats.c = 0 => scorer.emotion_scores = CalmOnly
        /\ scorer.pc = "done" /\ scorer.stats.c = 0 => scorer.conflict_risk = 0

\* The centroid-using variant has scored a silent clip.
C3_Witness ==
    /\ Degenerate
    /\ scorer.stats.c = 0
    /\ scorer.variant = "app"
    /\ scorer.pc = "done"
    /\ scorer.emotion_scores = CalmOnly

----------------------------------------------------------------------------
(* Properties of the handlers (checked under Spec) *)

Done(r) == pc[r] = "done"

C5_NonAudioIs400 ==
    \A r \in Reqs :
        Done(r) /\ req[r].content_type = "text/plain" =>
            /\ resp[r].status = 400
            /\ ~resp[r].success
            /\ resp[r].error # ""

\* C6: a payload larger than 10 MB is answered with status 400 and
\* success = false and is never decoded or scored, in every variant.
C6_OversizedIs400 ==
    \A r \in Reqs :
        Done(r) /\ req[r].size > SizeLimit =>
            /\ resp[r].status = 400
            /\ ~resp[r].success
            /\ steps[r] \cap {"decode", "score"} = {}

\* C7: an audio upload of zero length is answered with a 4xx status and
\* success = false.
C7_EmptyIs4xx ==
    \A r \in Reqs :
        Done(r) /\ IsAudio(req[r].content_type) /\ req[r].payload.size = 0 =>
            /\ resp[r].status \in 400..499
            /\ ~resp[r].success

\* C8: an audio upload whose bytes cannot be decoded is answered with
\* status 500 and success = false, in every variant.
C8_UndecodableIs500 ==
    \A r \in Reqs :
        /\ Done(r) /\ IsAudio(req[r].content_type)
        /\ req[r].payload.size > 0 /\ ~req[r].payload.decodable
        => /\ resp[r].status = 500
           /\ ~resp[r].success

\* C9: on every path the temporary file created for a request no longer
\* exists when the response is returned.
C9_TmpFileRemoved ==
    \A r \in Reqs : Done(r) => tmp[r] \notin DOMAIN files

Exceptions == {"AttributeError", "OSError", "DecodeError", "ZeroDivisionError", "ChartError"}

FailureShape(r) ==
    /\ resp[r].status > 0
    /\ ~resp[r].success
    /\ "error" \in resp[r].keys
    /\ resp[r].error # ""

\* C10 (as stated): every failure raised while handling a request is caught
\* and produces a response with success = false and an error field.
C10_AsStated ==
    \A r \in Reqs :
        Done(r) /\ steps[r] \cap Exceptions # {} => FailureShape(r)

SwallowedChartError(r) == req[r].variant = "app" /\ "ChartError" \in steps[r]

\* C10 (amended): no exception leaves a handler; every failure raised while
\* handling a request produces a response with success = false and an error
\* field, except a chart-rendering failure in app.py, which generate_charts
\* swallows: that request is answered with success = true and the charts
\* rendered before the failure.
C10_FailuresCaught ==
    \A r \in Reqs :
        Done(r) =>
            /\ resp[r].status > 0
            /\ steps[r] \cap Exceptions # {} /\ ~SwallowedChartError(r) => FailureShape(r)
            /\ SwallowedChartError(r) =>
                  /\ resp[r].success
                  /\ "error" \notin resp[r].keys
                  /\ resp[r].charts # AllCharts

\* A chart failure reached the except clause of main.py, and app.py
\* swallowed one.
C10_Witness ==
    \E r1, r2 \in Reqs :
        /\ Done(r1) /\ req[r1].variant = "main" /\ "ChartError" \in steps[r1]
        /\ ~resp[r1].success
        /\ Done(r2) /\ SwallowedChartError(r2)

----------------------------------------------------------------------------
(* Temporary files under concurrency *)

\* A request suspended in "await file.read()" with its temporary file open.
InFlight(r) == pc[r] = "reading" /\ tmp[r] # 0

\* In-flight requests hold pairwise different files, each made by its holder.
Private ==
    /\ \A r1, r2 \in Reqs : r1 # r2 /\ InFlight(r1) /\ InFlight(r2) => tmp[r1] # tmp[r2]
    /\ \A r \in Reqs : InFlight(r) => tmp[r] \in DOMAIN files /\ owner[tmp[r]] = r

\* A step that rewrites or removes an existing file is a step of the request
\* that made it.
TouchesOwn ==
    \A n \in DOMAIN files :
        (n \notin DOMAIN files' \/ files'[n] # files[n]) => pc'[owner[n]] # pc[owner[n]]

\* C11: under any interleaving no two in-flight requests use the same
\* temporary file, and a request never writes, reads or deletes a temporary
\* file made by another request.
C11_TmpFilesPrivate == [][TouchesOwn /\ Private']_vars

\* Two requests are suspended at the same time, each with its own file.
C11_Witness ==
    \E r1, r2 \in Reqs :
        /\ r1 # r2
        /\ InFlight(r1) /\ InFlight(r2)
        /\ {tmp[r1], tmp[r2]} \subseteq DOMAIN files

----------------------------------------------------------------------------
(* Duration ceiling (checked under ScorerSpec) *)

\* C12: decoded audio exactly as long as the ceiling is analysed unchanged,
\* longer audio is cut to exactly the ceiling and analysed; length never
\* makes the analysis fail, and the reported duration never exceeds the
\* ceiling.
C12_LengthCeiling ==
    /\ scorer.pc # "fault"
    /\ scorer.pc \notin {"off", "decoded"} =>
          /\ scorer.decoded = MaxLength(scorer.variant) => scorer.samples = scorer.decoded
          /\ scorer.decoded > MaxLength(scorer.variant) =>
                scorer.samples = MaxLength(scorer.variant)
          /\ scorer.duration <= MaxSeconds(scorer.variant) * 100

\* A clip twice as long as the ceiling was cut and scored.
C12_Witness ==
    /\ scorer.pc = "done"
    /\ scorer.decoded = 2 * MaxLength(scorer.variant)
    /\ scorer.samples = MaxLength(scorer.variant)
    /\ scorer.duration = MaxSeconds(scorer.variant) * 100
    /\ scorer.conflict_risk >= 0

----------------------------------------------------------------------------
(* Shape of the responses (checked under Spec) *)

FlatKeys == {"success", "emotions", "risk", "duration", "timestamp"}

\* C13 (as stated): every successful response has, at its top level,
\* success = true, an emotions object with the four scores, and the fields
\* risk, duration and timestamp, in every variant.
C13_AsStated ==
    \A r \in Reqs :
        Done(r) /\ resp[r].success =>
            /\ FlatKeys \subseteq resp[r].keys
            /\ \A k \in ScoreKeys : resp[r].emotions[k] >= 0

\* C13 (amended): a successful response of main.py and api/index.py has the
\* top-level keys success, emotions, risk, duration, timestamp (and chart);
\* a successful response of app.py has the top-level keys success,
\* emotion_result, chart_data and duration, and carries the scores, the risk
\* and the timestamp inside emotion_result (emotion_scores, conflict_risk,
\* duration, timestamp).  In every variant the four scores are present.
C13_SuccessShape ==
    \A r \in Reqs :
        Done(r) /\ resp[r].success =>
            /\ \A k \in ScoreKeys : resp[r].emotions[k] >= 0
            /\ resp[r].risk >= 0
            /\ IF req[r].variant = "app"
               THEN /\ resp[r].keys = {"success", "emotion_result", "chart_data", "duration"}
                    /\ resp[r].nested = {"emotion_scores", "conflict_risk", "duration", "timestamp"}
               ELSE /\ resp[r].keys = FlatKeys \cup {"chart"}
                    /\ resp[r].nested = {}

\* A flat success of main.py next to a nested success of app.py.
C13_Witness ==
    \E r1, r2 \in Reqs :
        /\ Done(r1) /\ resp[r1].success /\ req[r1].variant = "main"
        /\ Done(r2) /\ resp[r2].success /\ req[r2].variant = "app"
        /\ resp[r2].charts = AllCharts

----------------------------------------------------------------------------
(* Independence of the requests (checked under Spec) *)

\* Failures of the environment rather than of the upload.
NoEnvFault(r) == steps[r] \cap {"OSError", "ChartError"} = {}

Answer(r) == [resp[r] EXCEPT !.timestamp = 0]

----------------------------------------------------------------------------
(* The arithmetic in detail (checked under ScorerSpec) *)

\* Weights of the risk, in tenths: 0.4 / 0.6 in main.py and api/index.py,
\* 0.6 / 0.8 / 0.4 in app.py.
TenseWeight(v) == IF v = "app" THEN 6 ELSE 4
AngryWeight(v) == IF v = "app" THEN 8 ELSE 6
ExcitedWeight(v) == IF v = "app" THEN 4 ELSE 0

Scored == scorer.pc = "done"

\* C15 (as stated): the conflict risk is the weighted sum of only the tense
\* and angry percentages, capped at 100 and rounded to one decimal; calm and
\* excited do not contribute.
C15_AsStated ==
    Scored =>
        scorer.conflict_risk =
            Round(Min(10000, TenseWeight(scorer.variant) * scorer.emotion_scores.tense
                             + AngryWeight(scorer.variant) * scorer.emotion_scores.angry), 10)

\* C15 (amended): the conflict risk is a fixed weighted sum of the rounded
\* percentages, capped at 100 and rounded to one decimal: 0.4 tense + 0.6
\* angry in main.py and api/index.py, and 0.6 tense + 0.8 angry + 0.4 excited
\* in app.py; calm never contributes.
C15_RiskFormula ==
    Scored =>
        scorer.conflict_risk =
            Round(Min(10000, TenseWeight(scorer.variant) * scorer.emotion_scores.tense
                             + AngryWeight(scorer.variant) * scorer.emotion_scores.angry
                             + ExcitedWeight(scorer.variant) * scorer.emotion_scores.excited), 10)

\* app.py scored a clip whose excited share raised the risk.
C15_Witness ==
    /\ Scored
    /\ scorer.variant = "app"
    /\ scorer.emotion_scores.excited > 0
    /\ scorer.conflict_risk >
          Round(6 * scorer.emotion_scores.tense + 8 * scorer.emotion_scores.angry, 10)

RawLimit(v) == RawCeiling(v) * RawScale(v)

\* C16: before normalization each of the four raw weights lies between 0
\* and the ceiling (100 in main.py and api/index.py, 1 in app.py).
C16_RawInRange ==
    scorer.pc = "raw" =>
        \A k \in ScoreKeys :
            /\ scorer.emotion_scores[k] >= 0
            /\ scorer.emotion_scores[k] <= RawLimit(scorer.variant)

\* Raw weights with calm on its floor and angry on its ceiling.
C16_Witness ==
    /\ scorer.pc = "raw"
    /\ scorer.emotion_scores.calm = 0
    /\ scorer.emotion_scores.angry = RawLimit(scorer.variant)
    /\ scorer.stats.rv * 50 > 100 * StatDen

\* C17: the sum of the four raw weights is strictly positive, so the
\* normalization never divides by zero: whenever calm's raw weight is 0 the
\* angry raw weight is positive.
C17_TotalPositive ==
    /\ scorer.pc # "fault"
    /\ scorer.pc = "raw" =>
          /\ Total(scorer.emotion_scores) > 0
          /\ scorer.emotion_scores.calm = 0 => scorer.emotion_scores.angry > 0

\* Raw weights with calm at 0 and no zero crossings or centroid.
C17_Witness ==
    /\ scorer.pc = "raw"
    /\ scorer.emotion_scores.calm = 0
    /\ scorer.stats.z = 0 /\ scorer.stats.c = 0
    /\ Total(scorer.emotion_scores) > 0

----------------------------------------------------------------------------
(* Rejections and charts (checked under Spec) *)

\* Error messages of the validation checks the claims name: content type,
\* and size where the variant checks it.
ValidationErrors == {"not_audio", "too_large"}

\* Request r is answered in this step.
Answered(r) == pc[r] # "done" /\ pc'[r] = "done"

\* C18: a request rejected by validation (non-audio content type, or
\* oversized payload in api/index.py) is rejected before any temporary file
\* is made and before any decoding or scoring; the temporary files are the
\* same after the rejection as before it.
C18_RejectionFrame ==
    [][\A r \in Reqs :
          Answered(r) /\ resp'[r].error \in ValidationErrors =>
              /\ files' = files
              /\ tmp'[r] = 0
              /\ steps'[r] = {}]_vars

\* api/index.py rejected an oversized upload while another request had its
\* temporary file open.
C18_Witness ==
    \E r1, r2 \in Reqs :
        /\ Done(r1) /\ resp[r1].error = "too_large" /\ steps[r1] = {}
        /\ InFlight(r2) /\ tmp[r2] \in DOMAIN files

\* C19: in main.py and api/index.py a response carries a chart if and only
\* if it has success = true, and a response with success = false contains
\* no chart, emotions or risk field, also when chart rendering failed after
\* a successful analysis.
C19_ChartIffSuccess ==
    \A r \in Reqs :
        Done(r) /\ req[r].variant \in {"main", "index"} =>
            /\ "chart" \in resp[r].keys <=> resp[r].success
            /\ resp[r].charts # {} <=> resp[r].success
            /\ ~resp[r].success =>
                  /\ resp[r].keys \cap {"chart", "emotions", "risk"} = {}
                  /\ resp[r].emotions = NoScores /\ resp[r].risk = -1

\* api/index.py answered one clip with a chart and another, whose chart
\* failed to render, with a bare error.
C19_Witness ==
    \E r1, r2 \in Reqs :
        /\ Done(r1) /\ req[r1].variant = "index" /\ resp[r1].success
        /\ "chart" \in resp[r1].keys
        /\ Done(r2) /\ req[r2].variant = "index" /\ "ChartError" \in steps[r2]
        /\ resp[r2].keys = {"success", "error"}

====
